------------------------------ MODULE Spec2Model ------------------------------
(***************************************************************************)
(* A model of the ADAS-Carla scripts.                                      *)
(*                                                                         *)
(*   adas_system/carla_clients.py     CarlaClient and its main()           *)
(*   .../simple_bag_recorder.py       SimpleBagRecorder and its main()     *)
(*                                                                         *)
(* The simulator and the bus are external: a simulator call either         *)
(* succeeds or raises, an actor the simulator holds may die at any time,   *)
(* and the bus delivers one message per callback.                          *)
(***************************************************************************)
EXTENDS Integers, Sequences, FiniteSets, TLC

\* ------------------------------------------------------------------ bounds

\* How many actors the simulator lets this client spawn in one behaviour.
MaxActors == 5
\* How many vehicles are spawned while the vehicle commands are exercised.
MaxVehicles == 2
\* Polling-loop iterations that are counted.
MaxPolls == 2
\* Floats are modelled as multiples of 1/Unit.
Unit == 2
\* Control inputs range over -MaxMag/Unit .. MaxMag/Unit, the infinities and NaN.
MaxMag == 3

\* Messages published on 'chatter' in one behaviour.
MaxPublished == 3
\* The clock readings told apart.
MaxClock == 2

\* The depth of the subscription's queue.
QueueDepth == 10

\* ------------------------------------------------------------------- state

VARIABLES
    client,             \* CarlaClient.client: FALSE is None
    world,              \* CarlaClient.world: "None", or the name of the map
    blueprint_library,  \* CarlaClient.blueprint_library: FALSE is None
    vehicle,            \* CarlaClient.vehicle: 0 is None, else an actor id
    sensors,            \* CarlaClient.sensors: name -> actor id, 0 for no key
    actors,             \* the simulator's actors: id -> "none" | "alive" | "dead"
    weather,            \* the simulator's weather: <<>> while unset
    cpc,                \* position inside cleanup(): 0 outside it
    run,                \* the cleanup() call in progress or just ended
    last,               \* the last method call: what it did and returned
    pc,                 \* position of main() of carla_clients.py
    steps,              \* the setup steps main() has called, in order
    errorLogged,        \* the setup steps an error was logged for
    polls,              \* polling-loop iterations executed
    exit,               \* how main() ends: "" while nothing decided it
    rpc,                \* position of main() of simple_bag_recorder.py
    writer,             \* the SequentialWriter: "new" | "open"
    topics,             \* the topics created in the writer
    subscribed,         \* whether the subscription to 'chatter' exists
    queue,              \* the subscription's queue of undelivered messages
    writing,            \* the writer.write calls in progress
    bag,                \* the entries written to my_bag, in order
    delivered,          \* the messages handed to topic_callback, in order
    published,          \* how many messages were published on 'chatter'
    clock,              \* the node's clock
    shutdown            \* whether an interrupt or external shutdown came

clientVars == <<client, world, blueprint_library, vehicle, sensors, actors,
                weather, cpc, run, last>>
mainVars == <<pc, steps, errorLogged, polls, exit>>
bagVars == <<rpc, writer, topics, subscribed, queue, writing, bag, delivered,
             published, clock, shutdown>>
vars == <<clientVars, mainVars, bagVars>>

ActorIds == 1..MaxActors
SensorNames == {"camera", "imu", "gps"}

\* The order setup_sensors inserts the keys; a dict iterates in insertion order
\* and an overwritten key keeps its place.
SensorOrder == <<"camera", "imu", "gps">>

NoCall == [op |-> "", ret |-> "", calls |-> <<>>, logs |-> <<>>,
           arg |-> <<>>, out |-> <<>>]

NoRun == [status |-> "none", tracked |-> {}, trace |-> <<>>,
          afterCompleted |-> FALSE]

Init ==
    /\ client = FALSE
    /\ world = "None"
    /\ blueprint_library = FALSE
    /\ vehicle = 0
    /\ sensors = [n \in SensorNames |-> 0]
    /\ actors = [i \in ActorIds |-> "none"]
    /\ weather = <<>>
    /\ cpc = 0
    /\ run = NoRun
    /\ last = NoCall
    /\ pc = "connect"
    /\ steps = <<>>
    /\ errorLogged = {}
    /\ polls = 0
    /\ exit = ""
    /\ rpc = "init"
    /\ writer = "new"
    /\ topics = {}
    /\ subscribed = FALSE
    /\ queue = <<>>
    /\ writing = <<>>
    /\ bag = <<>>
    /\ delivered = <<>>
    /\ published = 0
    /\ clock = 0
    /\ shutdown = FALSE

\* --------------------------------------------------------------- simulator

\* The ids the simulator has not handed out yet.
FreeIds == {i \in ActorIds : actors[i] = "none"}

\* world.spawn_actor succeeding: the next id becomes a live actor.
NewId == CHOOSE i \in FreeIds : \A j \in FreeIds : i <= j

\* actor.destroy() succeeding on h.
Destroyed(h) == actors' = [actors EXCEPT ![h] = "dead"]

\* actor.destroy() raising on h: the call was made, the actor stays.
DestroyRaised(h) == actors' = actors


\* ------------------------------------------------------------ CarlaClient

Call(op, ret, calls, logs, arg, out) ==
    [op |-> op, ret |-> ret, calls |-> calls, logs |-> logs,
     arg |-> arg, out |-> out]

\* connect(): the try block stops at the first call that raises, keeping what
\* was assigned before it.
connect ==
    \E reached \in {"Client", "get_world", "get_blueprint_library", "return"} :
        /\ client' = IF reached = "Client" THEN client ELSE TRUE
        /\ world' = IF reached \in {"Client", "get_world"} THEN world
                    ELSE IF world = "None" THEN "default" ELSE world
        /\ blueprint_library' =
               IF reached = "return" THEN TRUE ELSE blueprint_library
        /\ last' = IF reached = "return"
                   THEN Call("connect", "True",
                             <<"get_world", "get_blueprint_library">>,
                             <<"info">>, <<>>, <<>>)
                   ELSE Call("connect", "False",
                             CASE reached = "Client" -> <<>>
                               [] reached = "get_world" -> <<"get_world">>
                               [] OTHER -> <<"get_world", "get_blueprint_library">>,
                             <<"error">>, <<>>, <<>>)
        /\ run' = NoRun
        /\ UNCHANGED <<vehicle, sensors, actors, weather, cpc>>

\* load_world(map_name): without a client the attribute lookup on None raises
\* inside the try block.
load_world(map_name) ==
    /\ \/ /\ ~client
          /\ UNCHANGED <<world, blueprint_library>>
          /\ last' = Call("load_world", "False", <<>>, <<"error">>,
                          <<map_name>>, <<>>)
       \/ /\ client
          /\ \E reached \in {"load_world", "get_blueprint_library", "return"} :
                /\ world' = IF reached = "load_world" THEN world ELSE map_name
                /\ blueprint_library' =
                       IF reached = "return" THEN TRUE ELSE blueprint_library
                /\ last' = IF reached = "return"
                           THEN Call("load_world", "True",
                                     <<"load_world", "get_blueprint_library">>,
                                     <<"info">>, <<map_name>>, <<>>)
                           ELSE Call("load_world", "False",
                                     IF reached = "load_world"
                                     THEN <<"load_world">>
                                     ELSE <<"load_world", "get_blueprint_library">>,
                                     <<"error">>, <<map_name>>, <<>>)
    /\ run' = NoRun
    /\ UNCHANGED <<client, vehicle, sensors, actors, weather,
                   cpc>>

\* A test that takes a vehicle to be there whatever self.vehicle is.
HasVehicleUntested == TRUE

\* `if self.vehicle:`, and `if not self.vehicle:` for its negation.
HasVehicle == vehicle # 0

\* What spawn_vehicle stores in self.vehicle: the actor spawn_actor returned.
SpawnedVehicle(id) == id

\* spawn_vehicle(): every failure inside the try block is caught, logged and
\* answered with False; self.vehicle is assigned only by a successful spawn.
spawn_vehicle ==
    /\ \/ /\ ~blueprint_library \/ world = "None"
          /\ UNCHANGED <<vehicle, actors>>
          /\ last' = Call("spawn_vehicle", "False", <<>>, <<"error">>,
                          <<>>, <<>>)
       \/ /\ blueprint_library /\ world # "None"
          /\ UNCHANGED <<vehicle, actors>>
          /\ \E calls \in {<<"find">>, <<"find", "get_spawn_points">>,
                           <<"find", "get_spawn_points", "spawn_actor">>} :
                last' = Call("spawn_vehicle", "False", calls, <<"error">>,
                             <<>>, <<>>)
       \/ /\ blueprint_library /\ world # "None"
          /\ FreeIds # {}
          /\ actors' = [actors EXCEPT ![NewId] = "alive"]
          /\ vehicle' = SpawnedVehicle(NewId)
          /\ last' = Call("spawn_vehicle", "True",
                          <<"find", "get_spawn_points", "spawn_actor">>,
                          <<"info">>, <<>>, <<NewId>>)
    /\ run' = NoRun
    /\ UNCHANGED <<client, world, blueprint_library, sensors, weather, cpc>>

\* The ids the first k spawns of setup_sensors get.
RECURSIVE TakeIds(_, _)
TakeIds(free, k) ==
    IF k = 0 \/ free = {} THEN <<>>
    ELSE LET m == CHOOSE i \in free : \A j \in free : i <= j
         IN <<m>> \o TakeIds(free \ {m}, k - 1)

\* setup_sensors(): camera, imu and gps are spawned and stored one after the
\* other; a spawn that raises ends the method with False and keeps the
\* sensors stored before it.
setup_sensors ==
    /\ \/ /\ ~HasVehicle
          /\ UNCHANGED <<sensors, actors>>
          /\ last' = Call("setup_sensors", "False", <<>>, <<"error">>,
                          <<>>, <<>>)
       \/ /\ HasVehicle
          /\ \E k \in 0..Len(SensorOrder) :
                LET ids == TakeIds(FreeIds, k) IN
                /\ Len(ids) = k
                /\ actors' = [i \in ActorIds |->
                                 IF \E j \in 1..k : ids[j] = i
                                 THEN "alive" ELSE actors[i]]
                /\ sensors' = [n \in SensorNames |->
                                 IF \E j \in 1..k : SensorOrder[j] = n
                                 THEN ids[CHOOSE j \in 1..k : SensorOrder[j] = n]
                                 ELSE sensors[n]]
                /\ last' = IF k = Len(SensorOrder)
                           THEN Call("setup_sensors", "True",
                                     [j \in 1..k |-> "spawn_actor"],
                                     [j \in 1..k |-> "info"], <<>>, ids)
                           ELSE Call("setup_sensors", "False",
                                     [j \in 1..(k + 1) |-> "spawn_actor"],
                                     [j \in 1..k |-> "info"] \o <<"error">>,
                                     <<>>, ids)
    /\ run' = NoRun
    /\ UNCHANGED <<client, world, blueprint_library, vehicle, weather, cpc>>


\* The keys of weather_presets.
WeatherNames ==
    {"ClearNoon", "CloudyNoon", "WetNoon", "WetCloudyNoon", "MidRainyNoon",
     "HardRainNoon", "SoftRainNoon", "ClearSunset", "CloudySunset",
     "WetSunset", "WetCloudySunset", "MidRainSunset", "HardRainSunset",
     "SoftRainSunset"}

\* carla.WeatherParameters.<name>, a constant of the simulator's library.
WeatherParameters(name) == <<"carla.WeatherParameters", name>>

\* The table: every key maps to the constant of its own name.
weather_presets == [k \in WeatherNames |-> WeatherParameters(k)]

\* The strings set_weather is called with: the keys and some that are none.
WeatherInputs ==
    WeatherNames \cup {"", "clearnoon", "ClearNight", "Foggy", "ClearNoon "}

\* A lookup whose default is the first sunset preset.
WeatherChoiceWrongDefault(weather_type) ==
    IF weather_type \in DOMAIN weather_presets
    THEN weather_presets[weather_type]
    ELSE WeatherParameters("ClearSunset")

\* The preset set_weather hands to world.set_weather.
WeatherChoice(weather_type) ==
    IF weather_type \in DOMAIN weather_presets
    THEN weather_presets[weather_type]
    ELSE WeatherParameters("ClearNoon")

\* set_weather(weather_type): no try block; without a world the attribute
\* lookup on None raises, and so may world.set_weather itself.
set_weather(weather_type) ==
    LET choice == WeatherChoice(weather_type)
        known == weather_type \in DOMAIN weather_presets
    IN
    /\ \/ /\ world = "None"
          /\ UNCHANGED weather
          /\ last' = Call("set_weather", "AttributeError", <<>>,
                          IF known THEN <<>> ELSE <<"warning">>,
                          <<weather_type>>, <<>>)
       \/ /\ world # "None"
          /\ \/ /\ weather' = choice
                /\ last' = Call("set_weather", "None", <<"set_weather">>,
                                IF known THEN <<"info">> ELSE <<"warning">>,
                                <<weather_type>>, <<choice>>)
             \/ /\ UNCHANGED weather
                /\ last' = Call("set_weather", "RuntimeError",
                                <<"set_weather">>,
                                IF known THEN <<>> ELSE <<"warning">>,
                                <<weather_type>>, <<choice>>)
    /\ run' = NoRun
    /\ UNCHANGED <<client, world, blueprint_library, vehicle, sensors, actors,
                   cpc>>

\* enable_autopilot(enabled): nothing at all without a vehicle.
enable_autopilot(enabled) ==
    /\ \/ /\ ~HasVehicle
          /\ last' = Call("enable_autopilot", "None", <<>>, <<>>,
                          <<enabled>>, <<>>)
       \/ /\ HasVehicle
          /\ \/ last' = Call("enable_autopilot", "None", <<"set_autopilot">>,
                             <<"info">>, <<enabled>>, <<enabled>>)
             \/ last' = Call("enable_autopilot", "RuntimeError",
                             <<"set_autopilot">>, <<>>, <<enabled>>,
                             <<enabled>>)
    /\ run' = NoRun
    /\ UNCHANGED <<client, world, blueprint_library, vehicle, sensors, actors,
                   weather, cpc>>

\* ------------------------------------------------------------------ floats

\* A float: a multiple of 1/Unit, an infinity, or NaN.
Num(n) == [k |-> "num", v |-> n]
NaN == [k |-> "nan", v |-> 0]
PosInf == [k |-> "inf", v |-> 1]
NegInf == [k |-> "inf", v |-> -1]

IsNaN(x) == x.k = "nan"

\* x <= y as IEEE 754 compares: false when either is NaN.
Le(x, y) ==
    /\ ~IsNaN(x) /\ ~IsNaN(y)
    /\ \/ x = NegInf
       \/ y = PosInf
       \/ x.k = "num" /\ y.k = "num" /\ x.v <= y.v

\* numpy.maximum and numpy.minimum: a NaN operand is the result.
np_maximum(x, y) ==
    IF IsNaN(x) THEN x ELSE IF IsNaN(y) THEN y ELSE IF Le(x, y) THEN y ELSE x

np_minimum(x, y) ==
    IF IsNaN(x) THEN x ELSE IF IsNaN(y) THEN y ELSE IF Le(x, y) THEN x ELSE y

\* numpy.clip(a, a_min, a_max) is minimum(a_max, maximum(a, a_min)).
np_clip(a, a_min, a_max) == np_minimum(np_maximum(a, a_min), a_max)

\* The control inputs tried.
Floats == {Num(n) : n \in -MaxMag..MaxMag} \cup {NaN, PosInf, NegInf}

\* manual_control(throttle, steer, brake): the three clips, then one
\* apply_control; nothing at all without a vehicle.
manual_control(throttle, steer, brake) ==
    /\ \/ /\ ~HasVehicle
          /\ last' = Call("manual_control", "None", <<>>, <<>>,
                          <<throttle, steer, brake>>, <<>>)
       \/ /\ HasVehicle
          /\ LET control == <<np_clip(throttle, Num(0), Num(Unit)),
                              np_clip(steer, Num(-Unit), Num(Unit)),
                              np_clip(brake, Num(0), Num(Unit))>>
             IN \E ret \in {"None", "RuntimeError"} :
                    last' = Call("manual_control", ret, <<"apply_control">>,
                                 <<>>, <<throttle, steer, brake>>, control)
    /\ run' = NoRun
    /\ UNCHANGED <<client, world, blueprint_library, vehicle, sensors, actors,
                   weather, cpc>>

\* get_vehicle_state(): {} without a vehicle, else three reads of the vehicle,
\* any of which may raise.
get_vehicle_state ==
    /\ \/ /\ ~HasVehicle
          /\ last' = Call("get_vehicle_state", "{}", <<>>, <<>>, <<>>, <<>>)
       \/ /\ HasVehicle
          /\ \/ last' = Call("get_vehicle_state", "state",
                             <<"get_transform", "get_velocity",
                               "get_acceleration">>, <<>>, <<>>, <<vehicle>>)
             \/ \E n \in 1..3 :
                    last' = Call("get_vehicle_state", "RuntimeError",
                                 SubSeq(<<"get_transform", "get_velocity",
                                          "get_acceleration">>, 1, n),
                                 <<>>, <<>>, <<vehicle>>)
    /\ run' = NoRun
    /\ UNCHANGED <<client, world, blueprint_library, vehicle, sensors, actors,
                   weather, cpc>>


\* ----------------------------------------------------------------- cleanup

\* cleanup() visits the sensors in the dict's order, then the vehicle.
CleanupVehicleFirst == <<"vehicle">> \o SensorOrder

CleanupOrder == SensorOrder \o <<"vehicle">>

\* The handle cleanup() looks at in its step for `target`: 0 when the key is
\* absent or self.vehicle is None.
Handle(target) == IF target = "vehicle" THEN vehicle ELSE sensors[target]

\* The handles the client tracks.
Tracked == {Handle(t) : t \in SensorNames \cup {"vehicle"}} \ {0}

\* A test that leaves out is_alive.
ShouldDestroyAnyHandle(h) == h # 0

\* `if sensor and sensor.is_alive` and `if self.vehicle and self.vehicle.is_alive`
ShouldDestroy(h) == h # 0 /\ actors[h] = "alive"

\* The first line of cleanup(): the log line; nothing is touched yet.
cleanup_begin ==
    /\ cpc = 0
    /\ cpc' = 1
    /\ run' = [status |-> "running", tracked |-> Tracked, trace |-> <<>>,
               afterCompleted |-> last.op = "cleanup" /\ last.ret = "None"]
    /\ last' = Call("cleanup", "running", <<>>, <<"info">>, <<>>, <<>>)
    /\ UNCHANGED <<client, world, blueprint_library, vehicle, sensors, actors,
                   weather>>

\* What cleanup() did with handle h in its step for `target`.
Visit(target, h, destroyed, raised) ==
    [target |-> target, handle |-> h, alive |-> actors[h] = "alive",
     destroyed |-> destroyed, raised |-> raised]

\* One step of cleanup(): the next sensor of the loop, or the vehicle. A
\* destroy() that raises ends cleanup() there, with nothing cleared.
cleanup_visit ==
    /\ cpc \in 1..Len(CleanupOrder)
    /\ LET target == CleanupOrder[cpc]
           h == Handle(target)
       IN IF ShouldDestroy(h)
          THEN \/ /\ Destroyed(h)
                  /\ cpc' = cpc + 1
                  /\ run' = [run EXCEPT
                                !.trace = Append(@, Visit(target, h, TRUE, FALSE))]
                  /\ last' = [last EXCEPT !.calls = Append(@, "destroy"),
                                          !.logs = Append(@, "info")]
               \/ /\ DestroyRaised(h)
                  /\ cpc' = 0
                  /\ run' = [run EXCEPT
                                !.status = "raised",
                                !.trace = Append(@, Visit(target, h, TRUE, TRUE))]
                  /\ last' = [last EXCEPT !.calls = Append(@, "destroy"),
                                          !.ret = "RuntimeError"]
          ELSE /\ cpc' = cpc + 1
               /\ run' = IF h = 0 THEN run
                         ELSE [run EXCEPT
                                  !.trace = Append(@, Visit(target, h, FALSE, FALSE))]
               /\ UNCHANGED <<actors, last>>
    /\ UNCHANGED <<client, world, blueprint_library, vehicle, sensors, weather>>

\* The last two lines of cleanup(): sensors.clear() and vehicle = None.
cleanup_clear ==
    /\ cpc = Len(CleanupOrder) + 1
    /\ cpc' = 0
    /\ sensors' = [n \in SensorNames |-> 0]
    /\ vehicle' = 0
    /\ run' = [run EXCEPT !.status = "returned"]
    /\ last' = [last EXCEPT !.ret = "None"]
    /\ UNCHANGED <<client, world, blueprint_library, actors, weather>>

\* The simulator, not this client, ends an actor: another client destroys
\* it, or the world is reloaded.
SimulatorDestroysActor ==
    /\ \E h \in ActorIds :
          /\ actors[h] = "alive"
          /\ actors' = [actors EXCEPT ![h] = "dead"]
    /\ UNCHANGED <<client, world, blueprint_library, vehicle, sensors,
                   weather, cpc, run, last, mainVars, bagVars>>

\* ------------------------------------- the client's methods, in any order

Connect == cpc = 0 /\ connect /\ UNCHANGED <<mainVars, bagVars>>

SpawnVehicle == cpc = 0 /\ spawn_vehicle /\ UNCHANGED <<mainVars, bagVars>>

SetupSensors == cpc = 0 /\ setup_sensors /\ UNCHANGED <<mainVars, bagVars>>

CleanupBegin == cleanup_begin /\ UNCHANGED <<mainVars, bagVars>>

CleanupVisit == cleanup_visit /\ UNCHANGED <<mainVars, bagVars>>

CleanupClear == cleanup_clear /\ UNCHANGED <<mainVars, bagVars>>

Next ==
    \/ Connect
    \/ SpawnVehicle
    \/ SetupSensors
    \/ CleanupBegin
    \/ CleanupVisit
    \/ CleanupClear
    \/ SimulatorDestroysActor

Spec == Init /\ [][Next]_vars


\* ------------------------------------------------- weather, in any order

LoadWorld == cpc = 0 /\ load_world("Town01") /\ UNCHANGED <<mainVars, bagVars>>

SetWeather ==
    /\ cpc = 0
    /\ \E weather_type \in WeatherInputs : set_weather(weather_type)
    /\ UNCHANGED <<mainVars, bagVars>>

NextWeather == Connect \/ LoadWorld \/ SetWeather

SpecWeather == Init /\ [][NextWeather]_vars

\* ------------------------------------- vehicle commands, in any order

EnableAutopilot ==
    /\ cpc = 0
    /\ \E enabled \in BOOLEAN : enable_autopilot(enabled)
    /\ UNCHANGED <<mainVars, bagVars>>

\* The calls of manual_control tried: one argument given and the others left
\* at their default of 0.0, or all three given the same value.
ControlInputs ==
    {<<x, Num(0), Num(0)>> : x \in Floats} \cup
    {<<Num(0), x, Num(0)>> : x \in Floats} \cup
    {<<Num(0), Num(0), x>> : x \in Floats} \cup
    {<<x, x, x>> : x \in Floats}

ManualControl ==
    /\ cpc = 0
    /\ \E c \in ControlInputs : manual_control(c[1], c[2], c[3])
    /\ UNCHANGED <<mainVars, bagVars>>

GetVehicleState == cpc = 0 /\ get_vehicle_state /\ UNCHANGED <<mainVars, bagVars>>

SpawnSomeVehicle ==
    /\ cpc = 0
    /\ Cardinality(ActorIds \ FreeIds) < MaxVehicles
    /\ spawn_vehicle
    /\ UNCHANGED <<mainVars, bagVars>>

NextControl ==
    \/ Connect
    \/ SpawnSomeVehicle
    \/ CleanupBegin
    \/ CleanupVisit
    \/ CleanupClear
    \/ EnableAutopilot
    \/ ManualControl
    \/ GetVehicleState

SpecControl == Init /\ [][NextControl]_vars


\* ------------------------------------------------ main() of carla_clients

\* The setup steps of main(), in the order it calls them.
SetupSteps == <<"connect", "load_world", "set_weather", "spawn_vehicle",
                "setup_sensors", "enable_autopilot">>

Range(f) == {f[i] : i \in DOMAIN f}

\* A setup step that tests the method's answer: on False main() logs an
\* error and returns; nothing of what was spawned is released.
CheckedStep(step, next) ==
    /\ steps' = Append(steps, step)
    /\ IF last'.ret = "True"
       THEN /\ pc' = next
            /\ UNCHANGED <<errorLogged, exit>>
       ELSE /\ pc' = "done"
            /\ errorLogged' = errorLogged \cup {step}
            /\ exit' = "return"
    /\ UNCHANGED <<polls, bagVars>>

\* A setup step whose method answers nothing and has no try block: when it
\* raises, the exception leaves main() with nothing logged and nothing
\* released.
UncheckedStep(step, next) ==
    /\ steps' = Append(steps, step)
    /\ IF last'.ret = "None"
       THEN /\ pc' = next
            /\ UNCHANGED <<errorLogged, exit>>
       ELSE /\ pc' = "done"
            /\ errorLogged' =
                   errorLogged \cup
                       (IF "error" \in Range(last'.logs) THEN {step} ELSE {})
            /\ exit' = last'.ret
    /\ UNCHANGED <<polls, bagVars>>

MainConnect ==
    pc = "connect" /\ connect /\ CheckedStep("connect", "load_world")

MainLoadWorld ==
    pc = "load_world" /\ load_world("Town01")
        /\ CheckedStep("load_world", "set_weather")

MainSetWeather ==
    pc = "set_weather" /\ set_weather("ClearNoon")
        /\ UncheckedStep("set_weather", "spawn_vehicle")

MainSpawnVehicle ==
    pc = "spawn_vehicle" /\ spawn_vehicle
        /\ CheckedStep("spawn_vehicle", "setup_sensors")

MainSetupSensors ==
    pc = "setup_sensors" /\ setup_sensors
        /\ CheckedStep("setup_sensors", "enable_autopilot")

MainEnableAutopilot ==
    pc = "enable_autopilot" /\ enable_autopilot(TRUE)
        /\ UncheckedStep("enable_autopilot", "loop")

\* One iteration of `while True`: get_vehicle_state, the two log lines. An
\* exception other than KeyboardInterrupt goes through `finally` and on.
MainPoll ==
    /\ pc = "loop"
    /\ polls < MaxPolls
    /\ get_vehicle_state
    /\ polls' = polls + 1
    /\ IF last'.ret = "RuntimeError"
       THEN pc' = "finally" /\ exit' = "RuntimeError"
       ELSE pc' = "sleep" /\ UNCHANGED exit
    /\ UNCHANGED <<steps, errorLogged, bagVars>>

\* time.sleep(5) returning.
MainSleep ==
    /\ pc = "sleep"
    /\ pc' = "loop"
    /\ UNCHANGED <<clientVars, steps, errorLogged, polls, exit, bagVars>>

\* Ctrl+C. Inside the try block it is caught and `finally` follows; before
\* the try block, and inside `finally`, nothing catches it.
KeyboardInterrupt ==
    /\ pc # "done"
    /\ IF pc \in {"loop", "sleep"}
       THEN /\ pc' = "finally"
            /\ exit' = "return"
            /\ UNCHANGED <<cpc, run>>
       ELSE /\ pc' = "done"
            /\ exit' = "KeyboardInterrupt"
            /\ cpc' = 0
            /\ run' = IF cpc # 0 THEN [run EXCEPT !.status = "raised"] ELSE run
    /\ UNCHANGED <<client, world, blueprint_library, vehicle, sensors, actors,
                   weather, last, steps, errorLogged, polls, bagVars>>

\* `finally`: client.cleanup() is called.
MainCleanupBegin ==
    /\ pc = "finally"
    /\ cleanup_begin
    /\ pc' = "cleanup"
    /\ UNCHANGED <<steps, errorLogged, polls, exit, bagVars>>

\* cleanup() goes on; when it returns main() ends as the try block decided,
\* and when it raises main() ends with that exception.
MainCleanupStep ==
    /\ pc = "cleanup"
    /\ cleanup_visit \/ cleanup_clear
    /\ pc' = IF cpc' = 0 THEN "done" ELSE "cleanup"
    /\ exit' = IF run'.status = "raised" THEN "RuntimeError in cleanup" ELSE exit
    /\ UNCHANGED <<steps, errorLogged, polls, bagVars>>

NextMain ==
    \/ MainConnect
    \/ MainLoadWorld
    \/ MainSetWeather
    \/ MainSpawnVehicle
    \/ MainSetupSensors
    \/ MainEnableAutopilot
    \/ MainPoll
    \/ MainSleep
    \/ KeyboardInterrupt
    \/ MainCleanupBegin
    \/ MainCleanupStep
    \/ SimulatorDestroysActor

SpecMain == Init /\ [][NextMain]_vars


\* ------------------------------------------------------ SimpleBagRecorder

\* The data of the std_msgs String messages published: "", "a", "hi".
Payloads == {<<>>, <<97>>, <<104, 105>>}

\* serialize_message(msg) for a std_msgs String: the CDR encapsulation
\* header, the length of the string with its terminator as a little-endian
\* uint32, the characters, the terminator.
serialize_message(msg) == <<0, 1, 0, 0>> \o <<Len(msg) + 1, 0, 0, 0>> \o msg \o <<0>>

\* A callback that writes the message twice.
TopicCallbackTwice(msg) ==
    <<[topic |-> "chatter", data |-> serialize_message(msg), time |-> clock],
      [topic |-> "chatter", data |-> serialize_message(msg), time |-> clock]>>

\* topic_callback(msg): the writer.write calls it makes.
topic_callback(msg) ==
    <<[topic |-> "chatter", data |-> serialize_message(msg), time |-> clock]>>

\* rclpy.init(), Node.__init__ and SequentialWriter().
RecorderInit ==
    /\ rpc = "init"
    /\ rpc' = "open"
    /\ UNCHANGED <<writer, topics, subscribed, queue, writing, bag, delivered,
                   published, clock, shutdown, clientVars, mainVars>>

\* writer.open(storage_options, converter_options): my_bag is created, or
\* the call raises and main() ends with the exception.
WriterOpen ==
    /\ rpc = "open"
    /\ \/ writer' = "open" /\ rpc' = "create_topic"
       \/ UNCHANGED writer /\ rpc' = "crashed"
    /\ UNCHANGED <<topics, subscribed, queue, writing, bag, delivered,
                   published, clock, shutdown, clientVars, mainVars>>

\* writer.create_topic(topic_info)
WriterCreateTopic ==
    /\ rpc = "create_topic"
    /\ topics' = topics \cup {"chatter"}
    /\ rpc' = "subscribe"
    /\ UNCHANGED <<writer, subscribed, queue, writing, bag, delivered,
                   published, clock, shutdown, clientVars, mainVars>>

\* create_subscription(String, 'chatter', self.topic_callback, 10), the end
\* of __init__, and rclpy.spin(sbr) starting.
CreateSubscription ==
    /\ rpc = "subscribe"
    /\ subscribed' = TRUE
    /\ rpc' = "spin"
    /\ UNCHANGED <<writer, topics, queue, writing, bag, delivered, published,
                   clock, shutdown, clientVars, mainVars>>

\* Some node publishes on 'chatter'. A queue of depth 10 keeps the last 10;
\* what is published while nothing subscribes is not kept.
Publish ==
    /\ published < MaxPublished
    /\ published' = published + 1
    /\ \E msg \in Payloads :
          queue' = IF subscribed /\ rpc \in {"spin", "callback"}
                   THEN IF Len(queue) < QueueDepth
                        THEN Append(queue, msg)
                        ELSE Append(Tail(queue), msg)
                   ELSE queue
    /\ UNCHANGED <<rpc, writer, topics, subscribed, writing, bag, delivered,
                   clock, shutdown, clientVars, mainVars>>

\* Time passes.
Tick ==
    /\ clock < MaxClock
    /\ clock' = clock + 1
    /\ UNCHANGED <<rpc, writer, topics, subscribed, queue, writing, bag,
                   delivered, published, shutdown, clientVars, mainVars>>

\* rclpy.spin's executor, which has one thread, takes the next message and
\* calls topic_callback with it: the message is serialized, the clock read,
\* writer.write entered.
CallbackBegin ==
    /\ rpc = "spin"
    /\ ~shutdown
    /\ queue # <<>>
    /\ queue' = Tail(queue)
    /\ delivered' = Append(delivered, Head(queue))
    /\ writing' = writing \o topic_callback(Head(queue))
    /\ rpc' = "callback"
    /\ UNCHANGED <<writer, topics, subscribed, bag, published, clock,
                   shutdown, clientVars, mainVars>>

\* writer.write returns, and with it topic_callback: the entry is in the
\* bag. A write to a writer not open, or to a topic not created, raises.
CallbackEnd ==
    /\ rpc = "callback"
    /\ IF writer = "open" /\ \A i \in DOMAIN writing : writing[i].topic \in topics
       THEN bag' = bag \o writing /\ rpc' = "spin"
       ELSE bag' = bag /\ rpc' = "crashed"
    /\ writing' = <<>>
    /\ UNCHANGED <<writer, topics, subscribed, queue, delivered, published,
                   clock, shutdown, clientVars, mainVars>>

\* Ctrl+C or an external shutdown while spinning: a callback that is running
\* ends first.
Shutdown ==
    /\ rpc \in {"spin", "callback"}
    /\ ~shutdown
    /\ shutdown' = TRUE
    /\ UNCHANGED <<rpc, writer, topics, subscribed, queue, writing, bag,
                   delivered, published, clock, clientVars, mainVars>>

\* spin ends; main() catches the exception and returns.
SpinExit ==
    /\ rpc = "spin"
    /\ shutdown
    /\ rpc' = "exit"
    /\ UNCHANGED <<writer, topics, subscribed, queue, writing, bag, delivered,
                   published, clock, shutdown, clientVars, mainVars>>

NextBag ==
    \/ RecorderInit
    \/ WriterOpen
    \/ WriterCreateTopic
    \/ CreateSubscription
    \/ Publish
    \/ Tick
    \/ CallbackBegin
    \/ CallbackEnd
    \/ Shutdown
    \/ SpinExit

SpecBag == Init /\ [][NextBag]_vars


\* -------------------------------------------------------------- properties

\* The handles cleanup() called destroy() on, one entry per call.
DestroyCalls == SelectSeq(run.trace, LAMBDA e : e.destroyed)

\* The actors this client spawned that are alive.
LiveActors == {i \in ActorIds : actors[i] = "alive"}

\* C1: on every path on which the session ends after its run loop was left
\* (by KeyboardInterrupt, by another exception, or with a destroy() failing
\* inside cleanup() itself), no handle has destroy() called twice, and once
\* main() has ended CarlaClient.sensors is empty and CarlaClient.vehicle is
\* None. Stated for the runs in which no Ctrl+C arrives inside cleanup().
C1_CleanupExitPathComplete ==
    /\ \A i, j \in DOMAIN DestroyCalls :
          DestroyCalls[i].handle = DestroyCalls[j].handle => i = j
    /\ (pc = "done" /\ run.status # "none" /\ exit # "KeyboardInterrupt") =>
          (vehicle = 0 /\ \A n \in SensorNames : sensors[n] = 0)

\* C2: no run of main() ends with an actor it spawned still alive.
C2_NoActorOutlivesMain == pc = "done" => LiveActors = {}

IsPrefix(p, q) == Len(p) <= Len(q) /\ \A i \in DOMAIN p : p[i] = q[i]

\* main() has ended on a setup step that failed: it returned False or raised.
SetupStepFailed ==
    /\ pc = "done"
    /\ last.op \in Range(SetupSteps)
    /\ last.ret \notin {"True", "None"}

\* C3: the setup steps run in their fixed order, each at most once; a step
\* that fails (returns False or raises) has an error logged for it and is
\* the last thing main() runs; the polling loop runs only after all six
\* steps.
C3_SetupAbortsAtFirstFailure ==
    /\ IsPrefix(steps, SetupSteps)
    /\ SetupStepFailed =>
          /\ steps # <<>> /\ steps[Len(steps)] = last.op
          /\ last.op \in errorLogged
          /\ polls = 0
    /\ polls > 0 => steps = SetupSteps

\* C4: set_weather called on a connected client with any string calls
\* world.set_weather exactly once, with the preset of that name when the
\* name is a key of the table and with ClearNoon, after a warning, when it
\* is not; it raises no lookup error, and the weather is set when the
\* simulator call returns.
C4_SetWeatherTotal ==
    (last.op = "set_weather" /\ last.ret # "AttributeError") =>
        LET weather_type == last.arg[1]
            expected == IF weather_type \in WeatherNames
                        THEN <<"carla.WeatherParameters", weather_type>>
                        ELSE <<"carla.WeatherParameters", "ClearNoon">>
        IN /\ last.calls = <<"set_weather">>
           /\ last.out = <<expected>>
           /\ weather_type \notin WeatherNames => last.logs = <<"warning">>
           /\ last.ret \in {"None", "RuntimeError"}
           /\ last.ret = "None" => weather = expected

\* An unknown name was given and the simulator has the ClearNoon weather.
C4_Witness ==
    /\ last.op = "set_weather"
    /\ last.arg = <<"Foggy">>
    /\ last.ret = "None"
    /\ weather = <<"carla.WeatherParameters", "ClearNoon">>

InRange(x, lo, hi) == Le(lo, x) /\ Le(x, hi)

\* C5: with a vehicle present, whatever throttle, steer and brake are, the
\* control forwarded has throttle and brake in [0,1] and steer in [-1,1], a
\* value inside its range is forwarded as it is, and clamping the forwarded
\* value again gives the same value.
C5_ControlClamped ==
    (last.op = "manual_control" /\ last.calls = <<"apply_control">>) =>
        LET lo == <<Num(0), Num(-Unit), Num(0)>>
            hi == <<Num(Unit), Num(Unit), Num(Unit)>>
        IN \A i \in 1..3 :
              /\ InRange(last.out[i], lo[i], hi[i])
              /\ InRange(last.arg[i], lo[i], hi[i]) => last.out[i] = last.arg[i]
              /\ np_clip(last.out[i], lo[i], hi[i]) = last.out[i]

VehicleCommands == {"get_vehicle_state", "enable_autopilot", "manual_control"}

\* C6: while CarlaClient.vehicle is None, get_vehicle_state answers {} and
\* enable_autopilot and manual_control answer None, none of them makes a
\* simulator call or fails, and none changes the client or the actors.
C6_NoVehicleNoCall ==
    /\ [](vehicle = 0 /\ last.op \in VehicleCommands =>
            /\ last.calls = <<>>
            /\ last.ret = IF last.op = "get_vehicle_state" THEN "{}" ELSE "None")
    /\ [][(vehicle = 0 /\ last'.op \in VehicleCommands /\ last' # last) =>
            /\ last'.calls = <<>>
            /\ UNCHANGED <<client, world, blueprint_library, vehicle, sensors,
                           actors, weather>>]_vars

\* A command was given after cleanup() destroyed the vehicle.
C6_Witness ==
    /\ vehicle = 0
    /\ \E i \in ActorIds : actors[i] = "dead"
    /\ last.op = "manual_control"
    /\ last.arg = <<Num(Unit), Num(0), Num(0)>>

\* The tracked sensors that are alive.
LiveTrackedSensors ==
    {n \in SensorNames : sensors[n] # 0 /\ actors[sensors[n]] = "alive"}

\* C7: cleanup() calls the vehicle's destroy() after the destroy() of every
\* tracked sensor that is alive: the vehicle is the last handle visited, and
\* no tracked sensor is alive once the vehicle's destroy() was called.
C7_SensorsBeforeVehicle ==
    \A i \in DOMAIN run.trace :
        (run.trace[i].target = "vehicle" /\ run.trace[i].destroyed) =>
            /\ i = Len(run.trace)
            /\ LiveTrackedSensors = {}

\* cleanup() destroyed three live sensors and then the live vehicle.
C7_Witness ==
    /\ Len(DestroyCalls) = 4
    /\ DestroyCalls[4].target = "vehicle"
    /\ \A i \in 1..4 : ~DestroyCalls[i].raised

\* C8: every message handed to topic_callback makes exactly one
\* writer.write on 'chatter' with that message's serialization: the bag
\* holds the serializations of the messages delivered, in the order
\* delivered, none missing and none twice, at most one write is in progress,
\* and nothing is written before the writer is open and the topic created.
C8_OneWritePerMessage ==
    /\ Len(writing) <= 1
    /\ rpc = "callback" => Len(writing) = 1
    /\ rpc # "crashed" => Len(bag) + Len(writing) = Len(delivered)
    /\ \A i \in DOMAIN (bag \o writing) :
          /\ (bag \o writing)[i].topic = "chatter"
          /\ i <= Len(delivered)
          /\ (bag \o writing)[i].data = serialize_message(delivered[i])
    /\ (bag # <<>> \/ writing # <<>>) => (writer = "open" /\ "chatter" \in topics)

\* Three messages, not all alike, are in the bag.
C8_Witness ==
    /\ Len(bag) = 3
    /\ bag[1].data # bag[2].data
    /\ bag[2].data = bag[3].data

\* C9: cleanup() calls destroy() on a handle exactly when the handle is
\* tracked and alive as cleanup() comes to it; a cleanup() that returns has
\* come to every tracked handle and leaves sensors empty and vehicle None;
\* a cleanup() right after one that returned calls no destroy().
C9_DestroyIffTrackedAlive ==
    /\ \A i \in DOMAIN run.trace :
          /\ run.trace[i].handle \in run.tracked
          /\ run.trace[i].destroyed <=> run.trace[i].alive
    /\ run.status = "returned" =>
          /\ {run.trace[i].handle : i \in DOMAIN run.trace} = run.tracked
          /\ vehicle = 0
          /\ \A n \in SensorNames : sensors[n] = 0
    /\ run.afterCompleted => run.trace = <<>>

\* cleanup() returned after passing over a dead handle and destroying a
\* live one.
C9_Witness ==
    /\ run.status = "returned"
    /\ \E i \in DOMAIN run.trace : ~run.trace[i].alive
    /\ \E i \in DOMAIN run.trace : run.trace[i].destroyed

\* C10: every live actor this client spawned is referenced by
\* CarlaClient.vehicle or by an entry of CarlaClient.sensors.
C10_LiveActorsTracked == LiveActors \subseteq Tracked

==============================================================================
